---------------------------- MODULE Spec2Model ----------------------------
(***************************************************************************)
(* Session/room relay server of body-pose-vr-tracker.                      *)
(*                                                                         *)
(* Two server flavours share the room/broadcast logic:                     *)
(*   "deploy" : src/pose-tracker-websocket/server.js                       *)
(*   "local"  : src/local/local-server.js                                  *)
(* The flavour is fixed by Init; every handler is one atomic action (the   *)
(* servers run on the single-threaded node event loop).                    *)
(*                                                                         *)
(* A connection object `ws` is identified by an index c \in Conns.  Its    *)
(* fields (sessionId, deviceType, roomId, ...) live in ws[c].              *)
(* JS null / undefined is the value Null; the empty string is Empty; both  *)
(* are falsy.                                                              *)
(***************************************************************************)
EXTENDS Integers, Sequences, FiniteSets, TLC

VARIABLES
    flavor,          \* which server file is running
    now,             \* Date.now(), in ms
    ws,              \* c -> fields of the connection object
    connections,     \* Map sessionId -> c                 (the session registry)
    rooms,           \* Map roomId -> [created, participants]  (the directory)
    poseDataLimits,  \* Map sessionId -> [count, resetTime]    (deploy only)
    sent,            \* envelopes written by the last handler, in order
    lastOp,          \* which handler ran last, with its inputs
    win,             \* observer: per connection, its rate window and recent relays
    relayed,         \* observer: per counter entry, messages let through since its (re)start
    peer,            \* per connection, the remote end's ping/pong state and the monitor's record
    wire,            \* per connection, the pose frames in flight to the server and received from it
    mgr,             \* the browser's WebSocketManager and RoomManager, with the sockets it made
    unswept,         \* the rate-limit table as the handlers alone leave it, never swept
    cleaned          \* the connections whose 'error' or 'close' listener has run cleanup

vars == <<flavor, now, ws, connections, rooms, poseDataLimits, sent, lastOp, win, relayed, peer,
          wire, mgr, unswept, cleaned>>

----------------------------------------------------------------------------
(* Bounds of the exploration *)

NConn == 2
NConnPair == 3
NConnRate == 2
MaxNow == 1500
MaxPose == 32
MaxCycles == 3
MaxCast == 3
MaxSeq == 4
MaxUp == 3
MaxSocks == 7
MaxLeap == 120000

----------------------------------------------------------------------------
(* Program constants *)

PoseRateLimit == 30
RateWindowMs == 1000
maxReconnectAttempts == 5
reconnectDelay == 1000
SweepAgeMs == 60000
SweepEveryMs == 60000

----------------------------------------------------------------------------
(* Value universes *)

Null == "null"
Empty == ""

Max(S) == CHOOSE x \in S : \A y \in S : y <= x
Conns == 1..Max({NConn, NConnPair, NConnRate})
Flavors == {"deploy", "local"}
SuppliedIds == {"s1"}
GenNames == <<"g1", "g2", "g3", "g4", "g5">>
RoomCodes == {"A", "B"}
DeviceTypes == {"mobile", "vr"}

Falsy(v) == v \in {Null, Empty}

(* The clock advances in half windows. *)
TickMs == RateWindowMs \div 2

----------------------------------------------------------------------------
(* JS Map helpers: a Map is a function on the set of its keys *)

MapHas(m, k) == k \in DOMAIN m
MapSet(m, k, v) == [x \in (DOMAIN m) \cup {k} |-> IF x = k THEN v ELSE m[x]]
MapDelete(m, k) == [x \in (DOMAIN m) \ {k} |-> m[x]]
EmptyMap == [x \in {} |-> Null]

(* An insertion-ordered Map sessionId -> participant, kept as a sequence of
   [sessionId, ws, deviceType]: set() on a present key replaces the value in
   place, on an absent key appends; delete() removes the key. *)
PartHas(ps, sid) == \E i \in 1..Len(ps) : ps[i].sessionId = sid
PartSet(ps, p) ==
    IF PartHas(ps, p.sessionId)
    THEN [i \in 1..Len(ps) |-> IF ps[i].sessionId = p.sessionId THEN p ELSE ps[i]]
    ELSE Append(ps, p)
PartDelete(ps, sid) == SelectSeq(ps, LAMBDA p : p.sessionId # sid)

MapSeq(f(_), sq) == [i \in 1..Len(sq) |-> f(sq[i])]

----------------------------------------------------------------------------
(* Envelopes (server -> client).  Every envelope has the same shape; fields a
   type does not carry are Null, <<>>, {} or -1.  Timestamps other than a
   room's creation time are not kept.  `listed` is not part of the message:
   it records, for a broadcast, whether the room's participant map held the
   session the envelope names at the moment ws.send was called. *)

Env(type) ==
    [to |-> 0, type |-> type, sessionId |-> Null, deviceType |-> Null,
     roomId |-> Null, participants |-> <<>>, devices |-> <<>>, rooms |-> {},
     created |-> -1, sourceSession |-> Null, targetSession |-> Null,
     capabilities |-> Null, info |-> Null, about |-> Null, listed |-> FALSE]

(* Inbound messages (client -> server), after JSON.parse. *)
Msg(type) ==
    [type |-> type, roomId |-> Null, sessionId |-> Null, deviceType |-> Null,
     targetSession |-> Null, capabilities |-> Null, sourceSession |-> Null]

NoOp ==
    [op |-> "init", c |-> 0, room |-> Null, sid |-> Null, target |-> Null]
Op(kind, c) == [NoOp EXCEPT !.op = kind, !.c = c]

(* The mutable server state threaded through a handler. *)
State ==
    [ws |-> ws, connections |-> connections, rooms |-> rooms,
     poseDataLimits |-> poseDataLimits, out |-> <<>>]

----------------------------------------------------------------------------
(* Utility functions *)

send(s, c, message) ==
    IF s.ws[c].readyState = "open"
    THEN [s EXCEPT !.out = Append(@, [message EXCEPT !.to = c])]
    ELSE s

(* sendError with the interpolated value left out of the message text *)
sendErrorUnnamed(s, c, message, about) ==
    send(s, c, [Env("error") EXCEPT !.info = message])

(* `about` is the value interpolated into the message text, if any. *)
sendError(s, c, message, about) ==
    send(s, c, [Env("error") EXCEPT !.info = message, !.about = about])

(* broadcastToRoom without the test of the excluded session *)
broadcastToRoomAll(s, roomId, message, excludeSession) ==
    IF ~MapHas(s.rooms, roomId) THEN s
    ELSE LET receivers ==
                 SelectSeq(s.rooms[roomId].participants,
                           LAMBDA p : s.ws[p.ws].readyState = "open")
         IN  [s EXCEPT !.out =
                  @ \o MapSeq(LAMBDA p : [message EXCEPT !.to = p.ws], receivers)]

broadcastToRoom(s, roomId, message, excludeSession) ==
    IF ~MapHas(s.rooms, roomId) THEN s
    ELSE LET receivers ==
                 SelectSeq(s.rooms[roomId].participants,
                           LAMBDA p : /\ p.sessionId # excludeSession
                                      /\ s.ws[p.ws].readyState = "open")
             listed == PartHas(s.rooms[roomId].participants, message.sessionId)
         IN  [s EXCEPT !.out =
                  @ \o MapSeq(LAMBDA p : [message EXCEPT !.to = p.ws,
                                                          !.listed = listed],
                              receivers)]

(* Math.random() ids: a value no other call returns. *)
generateId(c) == GenNames[c]

----------------------------------------------------------------------------
(* Room management *)

LeftEnv(me) ==
    [Env("participant_left") EXCEPT !.sessionId = me.sessionId,
                                    !.deviceType = me.deviceType]

JoinedEnv(me) ==
    [Env("participant_joined") EXCEPT !.sessionId = me.sessionId,
                                      !.deviceType = me.deviceType]

(* participants.delete that deletes nothing *)
removeParticipantNone(s, r, sid) == s

removeParticipant(s, r, sid) ==
    [s EXCEPT !.rooms[r].participants = PartDelete(@, sid)]

deleteIfEmpty(s, r) ==
    IF Len(s.rooms[r].participants) = 0
    THEN [s EXCEPT !.rooms = MapDelete(@, r)]
    ELSE s

setRoomId(s, c, r) == [s EXCEPT !.ws[c].roomId = r]

(* leaveRoom without the clean-up of empty rooms *)
leaveRoomKeepEmpty(s, c) ==
    IF Falsy(s.ws[c].roomId) \/ ~MapHas(s.rooms, s.ws[c].roomId) THEN s
    ELSE setRoomId(
             broadcastToRoom(
                 removeParticipant(s, s.ws[c].roomId, s.ws[c].sessionId),
                 s.ws[c].roomId, LeftEnv(s.ws[c]), Null),
             c, Null)

leaveRoom(s, c) ==
    IF Falsy(s.ws[c].roomId) \/ ~MapHas(s.rooms, s.ws[c].roomId) THEN s
    ELSE setRoomId(
             deleteIfEmpty(
                 broadcastToRoom(
                     removeParticipant(s, s.ws[c].roomId, s.ws[c].sessionId),
                     s.ws[c].roomId, LeftEnv(s.ws[c]), Null),
                 s.ws[c].roomId),
             c, Null)

(* "Leave current room first" *)
leaveCurrent(s, c) == IF ~Falsy(s.ws[c].roomId) THEN leaveRoom(s, c) ELSE s

ensureRoom(s, roomId) ==
    IF ~MapHas(s.rooms, roomId)
    THEN [s EXCEPT !.rooms = MapSet(@, roomId, [created |-> now, participants |-> <<>>])]
    ELSE s

addParticipant(s, c, roomId) ==
    [s EXCEPT !.rooms[roomId].participants =
                  PartSet(@, [sessionId |-> s.ws[c].sessionId, ws |-> c,
                              deviceType |-> s.ws[c].deviceType]),
              !.ws[c].roomId = roomId]

(* "Get participant list": read through each participant's ws *)
ParticipantList(s, roomId) ==
    MapSeq(LAMBDA p : [sessionId |-> s.ws[p.ws].sessionId,
                       deviceType |-> s.ws[p.ws].deviceType],
           s.rooms[roomId].participants)

(* room_joined with the joiner left in its own participant list *)
RoomJoinedEnvWithSelf(s, c, roomId) ==
    [Env("room_joined") EXCEPT
        !.roomId = roomId,
        !.participants = ParticipantList(s, roomId),
        !.created = s.rooms[roomId].created]

RoomJoinedEnv(s, c, roomId) ==
    [Env("room_joined") EXCEPT
        !.roomId = roomId,
        !.participants = SelectSeq(ParticipantList(s, roomId),
                                   LAMBDA p : p.sessionId # s.ws[c].sessionId),
        !.created = s.rooms[roomId].created]

(* "Confirm room join", "Notify others" *)
announceJoin(s, c, roomId) ==
    broadcastToRoom(send(s, c, RoomJoinedEnv(s, c, roomId)),
                    roomId, JoinedEnv(s.ws[c]), s.ws[c].sessionId)

(* joinRoom that notifies before it has updated the participant map *)
joinRoomEarly(s, c, roomId) ==
    addParticipant(announceJoin(ensureRoom(leaveCurrent(s, c), roomId), c, roomId),
                   c, roomId)

joinRoom(s, c, roomId) ==
    announceJoin(addParticipant(ensureRoom(leaveCurrent(s, c), roomId), c, roomId),
                 c, roomId)

(* local-server.js "Check for successful pairing", on the participant list
   taken after the join *)
(* "Check for successful pairing" that announces the pairing as a join *)
pairingCheckAsJoin(s, roomId) ==
    IF /\ \E i \in 1..Len(ParticipantList(s, roomId)) :
              ParticipantList(s, roomId)[i].deviceType = "mobile"
       /\ \E i \in 1..Len(ParticipantList(s, roomId)) :
              ParticipantList(s, roomId)[i].deviceType = "vr"
    THEN broadcastToRoom(s, roomId, Env("participant_joined"), Null)
    ELSE s

pairingCheck(s, roomId) ==
    IF /\ \E i \in 1..Len(ParticipantList(s, roomId)) :
              ParticipantList(s, roomId)[i].deviceType = "mobile"
       /\ \E i \in 1..Len(ParticipantList(s, roomId)) :
              ParticipantList(s, roomId)[i].deviceType = "vr"
    THEN broadcastToRoom(s, roomId,
             [Env("pairing_success") EXCEPT
                 !.devices = MapSeq(LAMBDA p : p.deviceType, ParticipantList(s, roomId))],
             Null)
    ELSE s

joinRoomLocal(s, c, roomId) == pairingCheck(joinRoom(s, c, roomId), roomId)

join(s, c, roomId) ==
    IF flavor = "local" THEN joinRoomLocal(s, c, roomId) ELSE joinRoom(s, c, roomId)

unregister(s, sid) == [s EXCEPT !.connections = MapDelete(@, sid)]

purgeLimit(s, sid) ==
    IF flavor = "deploy" THEN [s EXCEPT !.poseDataLimits = MapDelete(@, sid)] ELSE s

cleanup(s, c) ==
    purgeLimit(leaveRoom(unregister(s, s.ws[c].sessionId), c), s.ws[c].sessionId)

----------------------------------------------------------------------------
(* Pose data handling with rate limiting (server.js) *)

(* the entry handlePoseData stores for sid, given the table it reads *)
limitAfter(limits, sid) ==
    LET sessionLimit == IF MapHas(limits, sid)
                        THEN limits[sid]
                        ELSE [count |-> 0, resetTime |-> now + RateWindowMs]
        current == IF now > sessionLimit.resetTime
                   THEN [count |-> 0, resetTime |-> now + RateWindowMs]
                   ELSE sessionLimit
    IN  [current EXCEPT !.count = @ + 1]

RateStep(s, c) == limitAfter(s.poseDataLimits, s.ws[c].sessionId)

(* "Periodic cleanup" that also deletes the counters of the current window *)
sweepLimitsEager(limits) ==
    [sid \in {x \in DOMAIN limits : ~(now > limits[x].resetTime - RateWindowMs)} |-> limits[sid]]

(* "Periodic cleanup": "Clear old rate limit data" *)
sweepLimits(limits) ==
    [sid \in {x \in DOMAIN limits : ~(now > limits[x].resetTime + SweepAgeMs)} |-> limits[sid]]

storeLimit(s, c) ==
    [s EXCEPT !.poseDataLimits = MapSet(@, s.ws[c].sessionId, RateStep(s, c))]

PoseEnv(sessionId, deviceType) ==
    [Env("pose_data") EXCEPT !.sessionId = sessionId, !.deviceType = deviceType]

(* "Limit to 30 FPS per session", with the ceiling one too high *)
relayPoseLax(s, c) ==
    IF s.poseDataLimits[s.ws[c].sessionId].count > PoseRateLimit + 1 THEN s
    ELSE IF ~Falsy(s.ws[c].roomId)
    THEN broadcastToRoom(s, s.ws[c].roomId,
             PoseEnv(s.ws[c].sessionId, s.ws[c].deviceType), s.ws[c].sessionId)
    ELSE s

(* "Limit to 30 FPS per session", "Broadcast to room" *)
relayPose(s, c) ==
    IF s.poseDataLimits[s.ws[c].sessionId].count > PoseRateLimit THEN s
    ELSE IF ~Falsy(s.ws[c].roomId)
    THEN broadcastToRoom(s, s.ws[c].roomId,
             PoseEnv(s.ws[c].sessionId, s.ws[c].deviceType), s.ws[c].sessionId)
    ELSE s

handlePoseData(s, c, message) == relayPose(storeLimit(s, c), c)

(* local-server.js: no limiter; the client's message is spread into the
   relayed envelope, so its sessionId / deviceType fields are the client's. *)
handlePoseDataLocal(s, c, message) ==
    IF ~Falsy(s.ws[c].roomId)
    THEN broadcastToRoom(s, s.ws[c].roomId,
             PoseEnv(message.sessionId, message.deviceType), s.ws[c].sessionId)
    ELSE s

(* Device registration *)
registerDevice(s, c, message) ==
    send([s EXCEPT !.ws[c].capabilities = message.capabilities], c,
         [Env("device_registered") EXCEPT !.sessionId = s.ws[c].sessionId,
                                          !.capabilities = message.capabilities])

(* { ...message }: the client's fields, copied verbatim *)
SpreadMsg(message) ==
    [Env(message.type) EXCEPT
        !.sessionId = message.sessionId,
        !.deviceType = message.deviceType,
        !.roomId = message.roomId,
        !.capabilities = message.capabilities,
        !.targetSession = message.targetSession,
        !.sourceSession = message.sourceSession]

(* Sync request handling *)
handleSyncRequest(s, c, message) ==
    IF ~Falsy(message.targetSession)
    THEN IF /\ MapHas(s.connections, message.targetSession)
            /\ s.ws[s.connections[message.targetSession]].readyState = "open"
         THEN send(s, s.connections[message.targetSession],
                  [SpreadMsg(message) EXCEPT !.sourceSession = s.ws[c].sessionId])
         ELSE sendError(s, c, "Target session not found", Null)
    ELSE s

RoomSnapshot(s, withDevices) ==
    { [id |-> r, created |-> s.rooms[r].created,
       participants |-> Len(s.rooms[r].participants),
       devices |-> IF withDevices
                   THEN MapSeq(LAMBDA p : p.deviceType, s.rooms[r].participants)
                   ELSE <<>>] : r \in DOMAIN s.rooms }

(* Room list *)
sendRoomList(s, c) ==
    send(s, c, [Env("room_list") EXCEPT !.rooms = RoomSnapshot(s, TRUE)])

(* Development statistics (the process counters are not kept) *)
sendStats(s, c) ==
    send(s, c, [Env("stats") EXCEPT !.rooms = RoomSnapshot(s, FALSE)])

----------------------------------------------------------------------------
(* Message router.  `gen` is the value generateRoomId() returns if called. *)

handleMessageLimitAll(s, c, message, gen) ==
    IF message.type = "pose_data" THEN handlePoseData(s, c, message)
    ELSE IF /\ MapHas(s.poseDataLimits, s.ws[c].sessionId)
            /\ s.poseDataLimits[s.ws[c].sessionId].count > PoseRateLimit
    THEN s
    ELSE CASE message.type = "join_room" -> joinRoom(s, c, message.roomId)
           [] message.type = "leave_room" -> leaveRoom(s, c)
           [] message.type = "device_register" -> registerDevice(s, c, message)
           [] message.type = "ping" -> send(s, c, Env("pong"))
           [] message.type = "sync_request" -> handleSyncRequest(s, c, message)
           [] message.type = "room_list" -> sendRoomList(s, c)
           [] OTHER -> sendError(s, c, "Unknown message type", message.type)

handleMessage(s, c, message, gen) ==
    CASE message.type = "join_room" -> joinRoom(s, c, message.roomId)
      [] message.type = "leave_room" -> leaveRoom(s, c)
      [] message.type = "pose_data" -> handlePoseData(s, c, message)
      [] message.type = "device_register" -> registerDevice(s, c, message)
      [] message.type = "ping" -> send(s, c, Env("pong"))
      [] message.type = "sync_request" -> handleSyncRequest(s, c, message)
      [] message.type = "room_list" -> sendRoomList(s, c)
      [] OTHER -> sendError(s, c, "Unknown message type", message.type)

(* local-server.js.  registerDevice is not defined in that file: the call
   throws a ReferenceError, which the 'message' listener's catch turns into
   the 'Invalid message format' error reply. *)
handleMessageLocal(s, c, message, gen) ==
    CASE message.type = "join_room" -> joinRoomLocal(s, c, message.roomId)
      [] message.type = "create_room" ->
             send(joinRoomLocal(s, c, gen), c,
                  [Env("room_created") EXCEPT !.roomId = gen])
      [] message.type = "leave_room" -> leaveRoom(s, c)
      [] message.type = "pose_data" -> handlePoseDataLocal(s, c, message)
      [] message.type = "device_register" -> sendError(s, c, "Invalid message format", Null)
      [] message.type = "ping" -> send(s, c, Env("pong"))
      [] message.type = "get_stats" -> sendStats(s, c)
      [] OTHER -> sendError(s, c, "Unknown message type", message.type)

(* ws.on('message') with the catch block swallowing the exception *)
onMessageSilent(s, c, parsed, message, gen) ==
    IF ~parsed THEN s
    ELSE IF flavor = "local" THEN handleMessageLocal(s, c, message, gen)
    ELSE handleMessage(s, c, message, gen)

(* ws.on('message'): parsed == FALSE is a frame JSON.parse rejects. *)
onMessage(s, c, parsed, message, gen) ==
    IF ~parsed THEN sendError(s, c, "Invalid message format", Null)
    ELSE IF flavor = "local" THEN handleMessageLocal(s, c, message, gen)
    ELSE handleMessage(s, c, message, gen)

----------------------------------------------------------------------------
(* Committing a handler's result *)

Restrict(m, keys) == [x \in (DOMAIN m) \cap keys |-> m[x]]

Commit(s, op) ==
    /\ ws' = s.ws
    /\ connections' = s.connections
    /\ rooms' = s.rooms
    /\ poseDataLimits' = s.poseDataLimits
    /\ sent' = s.out
    /\ lastOp' = op

Quiet(s) ==
    /\ relayed' = Restrict(relayed, DOMAIN s.poseDataLimits)
    /\ cleaned' = IF lastOp'.op \in {"error", "close"} THEN cleaned \cup {lastOp'.c} ELSE cleaned
    /\ UNCHANGED <<flavor, now, win, peer, wire, mgr, unswept>>

NewWs ==
    [readyState |-> "none", sessionId |-> Null, deviceType |-> Null,
     roomId |-> Null, isAlive |-> FALSE, capabilities |-> Null]

(* pinged: a ping is unanswered; answering: the remote end still answers
   pings; missed: monitor cycles run since it stopped answering;
   terminated: the monitor called ws.terminate(). *)
NewPeer == [pinged |-> FALSE, answering |-> TRUE, missed |-> 0, terminated |-> FALSE]

----------------------------------------------------------------------------
(* The browser side: WebSocketManager, RoomManager and the page that owns
   them.  One manager; every WebSocket object it constructs keeps its own
   handlers, so a socket that is no longer this.ws still calls them. *)

RECURSIVE Pow2(_)
Pow2(k) == IF k = 0 THEN 1 ELSE 2 * Pow2(k - 1)

(* the keys of this.cloudServices: the ngrok entry is commented out *)
cloudServices == {"cloudflare", "railway", "custom", "local"}

(* connect(service = 'local'): the default argument names a configured service *)
ServiceLocalByDefault == "local"

(* connect(service = 'ngrok', roomId = null): the default arguments *)
DefaultService == "ngrok"

(* the delays handleDisconnection can pass to setTimeout *)
Delays == {reconnectDelay * Pow2(k) : k \in 0..maxReconnectAttempts}

SockIds == 1..MaxSocks

(* phase: none (not constructed), connecting, open, draining (the peer has
   started the closing handshake: readyState is CLOSING, no event yet),
   erred (error fired, close still to come), closing (close() called),
   closed.  roomId: the
   roomId parameter of the URL.  room: the room the server holds this
   socket's session in.  registered: device_register was written to it. *)
NoSock == [phase |-> "none", service |-> Null, roomId |-> Null, room |-> Null,
           registered |-> FALSE]

(* ws: the socket this.ws refers to, 0 for null.  timers: pending setTimeout
   callbacks by delay.  Observers: started and stopped (the page called
   connect, disconnect), opens (sockets that opened), calls and scheduled
   (connect() calls made by timers, and delays scheduled, since the last
   open), lostRoom (the room the session was in when its socket failed). *)
NewMgr ==
    [ws |-> 0, isConnected |-> FALSE, reconnectAttempts |-> 0, status |-> Empty,
     timers |-> [d \in Delays |-> 0], socks |-> [i \in SockIds |-> NoSock],
     nsocks |-> 0, currentRoom |-> Null,
     started |-> FALSE, stopped |-> FALSE, opens |-> 0, calls |-> 0,
     scheduled |-> <<>>, lostRoom |-> Null]

updateConnectionStatus(m, status) == [m EXCEPT !.status = status]

setTimeout(m, delay) ==
    [m EXCEPT !.timers[delay] = @ + 1, !.scheduled = Append(@, delay)]

handleDisconnection(m) ==
    IF m.reconnectAttempts < maxReconnectAttempts
    THEN setTimeout([updateConnectionStatus(m, "Disconnected") EXCEPT !.isConnected = FALSE],
                    reconnectDelay * Pow2(m.reconnectAttempts))
    ELSE updateConnectionStatus([m EXCEPT !.isConnected = FALSE], "Connection Failed")

newWebSocket(m, service, roomId) ==
    [m EXCEPT !.nsocks = @ + 1, !.ws = m.nsocks + 1,
              !.socks[m.nsocks + 1] =
                  [NoSock EXCEPT !.phase = "connecting", !.service = service,
                                 !.roomId = roomId]]

(* throws: the WebSocket constructor throws (the catch branch) *)
connect(m, service, roomId, throws) ==
    IF service \notin cloudServices THEN m
    ELSE IF throws THEN handleDisconnection(m)
    ELSE newWebSocket(m, service, roomId)

WsOpen(m) == m.ws # 0 /\ m.socks[m.ws].phase = "open"

(* sendMessage({type: 'device_register', ...}) *)
sendRegister(m) == IF WsOpen(m) THEN [m EXCEPT !.socks[m.ws].registered = TRUE] ELSE m

(* onopen that leaves one attempt counted *)
onopenResetOne(m) ==
    sendRegister(updateConnectionStatus(
        [m EXCEPT !.isConnected = TRUE, !.reconnectAttempts = 1], "Connected"))

onopen(m) ==
    sendRegister(updateConnectionStatus(
        [m EXCEPT !.isConnected = TRUE, !.reconnectAttempts = 0], "Connected"))

(* the setTimeout callback of handleDisconnection *)
reconnectTimer(m, throws) ==
    connect(updateConnectionStatus(
                [m EXCEPT !.reconnectAttempts = @ + 1, !.calls = @ + 1], "Reconnecting"),
            DefaultService, Null, throws)

(* WebSocketManager.joinRoom: sendMessage writes only to an open this.ws;
   the server then holds the session in that room *)
sendJoinRoom(m, roomId) == IF WsOpen(m) THEN [m EXCEPT !.socks[m.ws].room = roomId] ELSE m

(* RoomManager.joinRoom *)
joinRoomUi(m, roomId) == sendJoinRoom([m EXCEPT !.currentRoom = roomId], roomId)

wsClose(m) ==
    IF m.ws # 0
    THEN [m EXCEPT !.socks[m.ws].phase =
                       IF @ \in {"connecting", "open", "draining"} THEN "closing" ELSE @,
                   !.ws = 0]
    ELSE m

disconnect(m) ==
    updateConnectionStatus([wsClose(m) EXCEPT !.isConnected = FALSE], "Disconnected")

(* the socket leaves the open phase: the server's cleanup takes the session
   out of its room *)
lose(m, i, phase) ==
    [m EXCEPT !.socks[i].phase = phase,
              !.lostRoom = IF m.socks[i].phase \in {"open", "draining"} /\ m.socks[i].room # Null
                           THEN m.socks[i].room ELSE @]

----------------------------------------------------------------------------
(* Initial state and connection events *)

(* up: numbers of the pose frames the client has written to its socket and
   the server has not read yet, oldest first; next: number of the next frame
   the client produces; got: numbers of the relayed frames written to this
   client's socket, in the order of the writes. *)
NewWire == [up |-> <<>>, next |-> 1, got |-> <<>>]

NewWin == [start |-> 0, seen |-> 0, relPrev |-> 0, relCur |-> 0]

Init ==
    /\ flavor \in Flavors
    /\ now = 0
    /\ ws = [c \in Conns |-> NewWs]
    /\ connections = EmptyMap
    /\ rooms = EmptyMap
    /\ poseDataLimits = EmptyMap
    /\ sent = <<>>
    /\ lastOp = NoOp
    /\ win = [c \in Conns |-> NewWin]
    /\ peer = [c \in Conns |-> NewPeer]
    /\ wire = [c \in Conns |-> NewWire]
    /\ mgr = NewMgr
    /\ unswept = EmptyMap
    /\ cleaned = {}
    /\ relayed = EmptyMap

(* Was the room holding both a mobile and a vr participant? *)
HasPair(rs, r) ==
    /\ MapHas(rs, r)
    /\ \E i \in 1..Len(rs[r].participants) : rs[r].participants[i].deviceType = "mobile"
    /\ \E i \in 1..Len(rs[r].participants) : rs[r].participants[i].deviceType = "vr"

----------------------------------------------------------------------------
(* wss.on('connection'): reqSid / reqDt / reqRoom are the URL parameters
   (Null when absent). *)
accept(s, c, sessionId, deviceType, reqRoom) ==
    [s EXCEPT !.ws[c] = [readyState |-> "open", sessionId |-> sessionId,
                         deviceType |-> deviceType, roomId |-> reqRoom,
                         isAlive |-> TRUE, capabilities |-> Null],
              !.connections = MapSet(@, sessionId, c)]

autoJoin(s, c, reqRoom) == IF ~Falsy(reqRoom) THEN join(s, c, reqRoom) ELSE s

welcome(s, c) ==
    send(s, c, [Env("connected") EXCEPT !.sessionId = s.ws[c].sessionId,
                                        !.deviceType = s.ws[c].deviceType])

onConnection(s, c, reqSid, reqDt, reqRoom) ==
    welcome(autoJoin(accept(s, c,
                            IF Falsy(reqSid) THEN generateId(c) ELSE reqSid,
                            IF Falsy(reqDt) THEN "unknown" ELSE reqDt,
                            reqRoom),
                     c, reqRoom),
            c)

Finish(s, op) == Commit(s, op) /\ Quiet(s)

Connect(c, reqSid, reqDt, reqRoom) ==
    /\ ws[c].readyState = "none"
    /\ Finish(onConnection(State, c, reqSid, reqDt, reqRoom),
              [Op("connect", c) EXCEPT !.room = reqRoom, !.sid = reqSid])

(* A parsed message other than pose_data *)
Receive(c, message, gen, op) ==
    /\ ws[c].readyState = "open"
    /\ Finish(onMessage(State, c, TRUE, message, gen), op)

JoinRoomMsg(c, roomId) ==
    Receive(c, [Msg("join_room") EXCEPT !.roomId = roomId], Null,
            [Op("join_room", c) EXCEPT !.room = roomId])

CreateRoomMsg(c, gen) ==
    Receive(c, Msg("create_room"), gen, [Op("create_room", c) EXCEPT !.room = gen])

LeaveRoomMsg(c) ==
    Receive(c, Msg("leave_room"), Null,
            [Op("leave_room", c) EXCEPT !.room = ws[c].roomId])

PingMsg(c) == Receive(c, Msg("ping"), Null, Op("ping", c))

DeviceRegisterMsg(c, caps) ==
    Receive(c, [Msg("device_register") EXCEPT !.sessionId = ws[c].sessionId,
                                              !.deviceType = ws[c].deviceType,
                                              !.capabilities = caps],
            Null, Op("device_register", c))

(* claimed is the sourceSession field the client put into the message *)
SyncRequestFrom(c, target, claimed) ==
    Receive(c, [Msg("sync_request") EXCEPT !.sessionId = ws[c].sessionId,
                                           !.targetSession = target,
                                           !.sourceSession = claimed],
            Null, [Op("sync_request", c) EXCEPT !.target = target, !.sid = claimed])

SyncRequestMsg(c, target) == SyncRequestFrom(c, target, Null)

(* A frame that is not JSON *)
BadFrame(c) ==
    /\ ws[c].readyState = "open"
    /\ Finish(onMessage(State, c, FALSE, Msg(Null), Null), Op("bad_frame", c))

(* A well-formed envelope of a type no server knows *)
UnknownMsg(c, type) ==
    Receive(c, Msg(type), Null, [Op("unknown", c) EXCEPT !.target = type])

RoomListMsg(c) == Receive(c, Msg("room_list"), Null, Op("room_list", c))

GetStatsMsg(c) == Receive(c, Msg("get_stats"), Null, Op("get_stats", c))

(* case 'pose_data'.  claimSid / claimDt are the sessionId and deviceType
   fields the client wrote into the message. *)
PoseHandled(c, claimSid, claimDt) ==
    /\ ws[c].readyState = "open"
    /\ win[c].seen < MaxPose
    /\ LET sid == ws[c].sessionId
           s1 == onMessage(State, c, TRUE,
                           [Msg("pose_data") EXCEPT !.sessionId = claimSid,
                                                    !.deviceType = claimDt],
                           Null)
           delivered == IF s1.out # <<>> THEN 1 ELSE 0
           restarted == \/ ~MapHas(poseDataLimits, sid)
                        \/ ~MapHas(relayed, sid)
                        \/ now > poseDataLimits[sid].resetTime
           w == win[c]
           inWindow == w.seen > 0 /\ now <= w.start + RateWindowMs
       IN  /\ Commit(s1, Op("pose_data", c))
           /\ win' = [win EXCEPT ![c] =
                         [start |-> IF inWindow THEN w.start ELSE now,
                          seen |-> IF inWindow THEN w.seen + 1 ELSE 1,
                          relPrev |-> w.relPrev,
                          relCur |-> w.relCur + delivered]]
           /\ relayed' =
                 IF flavor = "deploy"
                 THEN MapSet(Restrict(relayed, DOMAIN s1.poseDataLimits), sid,
                             (IF restarted THEN 0 ELSE relayed[sid]) + delivered)
                 ELSE relayed
    /\ UNCHANGED <<flavor, now, peer, mgr, cleaned>>

PoseData(c, claimSid, claimDt) ==
    PoseHandled(c, claimSid, claimDt) /\ UNCHANGED <<wire, unswept>>

(* the frame the 'message' event hands over next: a frame read later than
   the oldest one *)
nextFrameNewest(q) == q[Len(q)]

(* the frame the 'message' event hands over next: the socket is a byte
   stream and 'message' events are emitted in arrival order *)
nextFrame(q) == Head(q)

Without(q, x) == SelectSeq(q, LAMBDA y : y # x)

(* sendPoseData: the client writes one more pose frame to its socket *)
Produce(c) ==
    /\ ws[c].readyState = "open"
    /\ wire[c].next <= MaxSeq
    /\ Len(wire[c].up) < MaxUp
    /\ wire' = [wire EXCEPT ![c].up = Append(@, wire[c].next), ![c].next = @ + 1]
    /\ sent' = <<>>
    /\ lastOp' = Op("produce", c)
    /\ UNCHANGED <<flavor, now, ws, connections, rooms, poseDataLimits, win, relayed, peer, mgr, unswept, cleaned>>

(* ws.on('message') for the next pose frame in flight from c; the envelope
   each recipient is written carries that frame's landmarks *)
PoseFrame(c) ==
    /\ wire[c].up # <<>>
    /\ PoseHandled(c, ws[c].sessionId, ws[c].deviceType)
    /\ UNCHANGED unswept
    /\ wire' = [d \in Conns |->
                  IF d = c
                  THEN [wire[c] EXCEPT !.up = Without(@, nextFrame(wire[c].up))]
                  ELSE IF \E i \in 1..Len(sent') :
                             sent'[i].to = d /\ sent'[i].type = "pose_data"
                  THEN [wire[d] EXCEPT !.got = Append(@, nextFrame(wire[c].up))]
                  ELSE wire[d]]

(* The peer starts the closing handshake, or the server terminates the
   socket: the socket is no longer OPEN, its 'close' event is still due. *)
BeginClose(c) ==
    /\ ws[c].readyState = "open"
    /\ Finish([State EXCEPT !.ws[c].readyState = "closing"], Op("begin_close", c))

(* ws.on('error'): the socket has left OPEN when the listener runs; its
   'close' event follows. *)
SocketError(c) ==
    /\ ws[c].readyState = "open"
    /\ Finish(cleanup([State EXCEPT !.ws[c].readyState = "closing"], c), Op("error", c))

(* ws.on('close') *)
Close(c) ==
    /\ ws[c].readyState \in {"open", "closing"}
    /\ Finish(cleanup([State EXCEPT !.ws[c].readyState = "closed"], c), Op("close", c))

(* Time passes. *)
Tick ==
    /\ now < MaxNow
    /\ now' = now + TickMs
    /\ win' = [c \in Conns |-> [win[c] EXCEPT !.relPrev = win[c].relCur, !.relCur = 0]]
    /\ sent' = <<>>
    /\ lastOp' = Op("tick", 0)
    /\ UNCHANGED <<flavor, ws, connections, rooms, poseDataLimits, relayed, peer, wire, mgr, unswept, cleaned>>

----------------------------------------------------------------------------
(* Keepalive *)

(* the socket is in wss.clients: connected and its 'close' not yet emitted *)
InClients(w) == w.readyState \in {"open", "closing"}

(* one iteration of the keepalive loop that never clears the flag *)
keepaliveOneNoClear(w) ==
    IF ~InClients(w) THEN w
    ELSE IF ~w.isAlive THEN [w EXCEPT !.readyState = "closing"]
    ELSE w

(* one iteration of the keepalive loop that terminates without a test *)
keepaliveOneEager(w) ==
    IF ~InClients(w) THEN w
    ELSE [w EXCEPT !.readyState = "closing"]

(* one iteration of wss.clients.forEach: terminate() takes the socket out of
   OPEN, its 'close' event follows *)
keepaliveOne(w) ==
    IF ~InClients(w) THEN w
    ELSE IF ~w.isAlive THEN [w EXCEPT !.readyState = "closing"]
    ELSE [w EXCEPT !.isAlive = FALSE]

keepalive(s) == [s EXCEPT !.ws = [c \in Conns |-> keepaliveOne(s.ws[c])]]

PeerAfterCycle(c, before, after) ==
    [pinged |-> peer[c].pinged
                \/ (before.readyState = "open" /\ before.isAlive /\ ~after.isAlive),
     answering |-> peer[c].answering,
     missed |-> IF before.readyState = "open" /\ ~peer[c].answering
                THEN peer[c].missed + 1 ELSE peer[c].missed,
     terminated |-> peer[c].terminated
                    \/ (before.readyState = "open" /\ after.readyState # "open")]

(* setInterval(..., 30000): one monitor cycle over all clients *)
Keepalive ==
    /\ \E c \in Conns : InClients(ws[c])
    /\ \A c \in Conns : peer[c].missed < MaxCycles
    /\ Commit(keepalive(State), Op("keepalive", 0))
    /\ peer' = [c \in Conns |-> PeerAfterCycle(c, ws[c], keepalive(State).ws[c])]
    /\ UNCHANGED <<flavor, now, win, relayed, wire, mgr, unswept, cleaned>>

(* ws.on('pong') *)
onPong(s, c) == [s EXCEPT !.ws[c].isAlive = TRUE]

(* The remote end answers the outstanding ping. *)
Pong(c) ==
    /\ ws[c].readyState = "open"
    /\ peer[c].pinged
    /\ peer[c].answering
    /\ Commit(onPong(State, c), Op("pong", c))
    /\ peer' = [peer EXCEPT ![c].pinged = FALSE]
    /\ UNCHANGED <<flavor, now, win, relayed, wire, mgr, unswept, cleaned>>

(* The remote end stops answering pings, for good. *)
StopAnswering(c) ==
    /\ ws[c].readyState = "open"
    /\ peer[c].answering
    /\ peer' = [peer EXCEPT ![c].answering = FALSE]
    /\ sent' = <<>>
    /\ lastOp' = Op("stop_answering", c)
    /\ UNCHANGED <<flavor, now, ws, connections, rooms, poseDataLimits, win, relayed, wire, mgr, unswept, cleaned>>

----------------------------------------------------------------------------
(* Registry and room directory: connections with and without a supplied
   session id, two room codes and the empty code. *)

RoomConns == 1..NConn

Next ==
    \/ \E c \in RoomConns, reqSid \in SuppliedIds \cup {Null},
          reqRoom \in RoomCodes \cup {Null} : Connect(c, reqSid, Null, reqRoom)
    \/ \E c \in RoomConns, r \in RoomCodes \cup {Empty} : JoinRoomMsg(c, r)
    \/ \E c \in RoomConns, gen \in RoomCodes : CreateRoomMsg(c, gen)
    \/ \E c \in RoomConns : LeaveRoomMsg(c)
    \/ \E c \in RoomConns : BeginClose(c)
    \/ \E c \in RoomConns : SocketError(c)
    \/ \E c \in RoomConns : Close(c)

Spec == Init /\ [][Next]_vars


----------------------------------------------------------------------------
(* Pairing: three clients of declared device classes around one room. *)

PairConns == 1..NConnPair

NextPair ==
    \/ \E c \in PairConns, dt \in DeviceTypes, reqRoom \in {"A", Null} :
           Connect(c, Null, dt, reqRoom)
    \/ \E c \in PairConns : JoinRoomMsg(c, "A")
    \/ \E c \in PairConns : LeaveRoomMsg(c)
    \/ \E c \in PairConns : BeginClose(c)
    \/ \E c \in PairConns : Close(c)

SpecPair == Init /\ [][NextPair]_vars

----------------------------------------------------------------------------
(* Rate limiting: a sender streaming pose_data over a few half windows,
   next to the control messages of both connections. *)

RateConns == 1..NConnRate
PoseSenders == {1}

NextRate ==
    \/ \E c \in RateConns : Connect(c, Null, Null, "A")
    \/ \E c \in PoseSenders : PoseData(c, ws[c].sessionId, ws[c].deviceType)
    \/ \E c \in RateConns : Close(c)
    \/ Tick

SpecRate == Init /\ [][NextRate]_vars

(* Control messages of a sender that may be over its ceiling. *)

NextCtl ==
    \/ \E c \in RateConns, reqRoom \in {"A", Null} : Connect(c, Null, Null, reqRoom)
    \/ \E c \in PoseSenders : PoseData(c, ws[c].sessionId, ws[c].deviceType)
    \/ \E c \in PoseSenders : JoinRoomMsg(c, "A")
    \/ \E c \in PoseSenders : LeaveRoomMsg(c)
    \/ \E c \in PoseSenders : PingMsg(c)
    \/ \E c \in PoseSenders : DeviceRegisterMsg(c, "caps")
    \/ \E c \in PoseSenders, t \in SuppliedIds \cup {GenNames[2]} : SyncRequestMsg(c, t)
    \/ \E c \in PoseSenders : RoomListMsg(c)
    \/ \E c \in RateConns \ PoseSenders : Close(c)

SpecCtl == Init /\ [][NextCtl]_vars

----------------------------------------------------------------------------
(* Request / reply messages of two clients, one of which may have started
   closing. *)

UnknownTypes == {"bogus"}

NextMsg ==
    \/ \E c \in RoomConns, reqRoom \in {"A", Null} : Connect(c, Null, Null, reqRoom)
    \/ \E c \in RoomConns : BadFrame(c)
    \/ \E c \in RoomConns, t \in UnknownTypes : UnknownMsg(c, t)
    \/ \E c \in RoomConns : PingMsg(c)
    \/ \E c \in RoomConns : DeviceRegisterMsg(c, "caps")
    \/ \E c \in RoomConns, gen \in RoomCodes : CreateRoomMsg(c, gen)
    \/ \E c \in RoomConns, t \in {GenNames[1], GenNames[2]}, claimed \in {Null, "s1"} :
           SyncRequestFrom(c, t, claimed)
    \/ \E c \in RoomConns : RoomListMsg(c)
    \/ \E c \in RoomConns : GetStatsMsg(c)
    \/ \E c \in RoomConns : BeginClose(c)
    \/ \E c \in RoomConns : Close(c)

SpecMsg == Init /\ [][NextMsg]_vars

----------------------------------------------------------------------------
(* The liveness monitor over clients that join room A on connecting. *)

NextLive ==
    \/ \E c \in RoomConns : Connect(c, Null, Null, "A")
    \/ \E c \in RoomConns : PingMsg(c)
    \/ \E c \in RoomConns : Pong(c)
    \/ \E c \in RoomConns : StopAnswering(c)
    \/ \E c \in RoomConns : Close(c)
    \/ Keepalive

SpecLive == Init /\ [][NextLive]_vars

(* a socket that left OPEN gets its 'close' event *)
CloseDue(c) == ws[c].readyState = "closing" /\ Close(c)

(* the interval timer keeps firing, and a terminated socket is closed *)
SpecLiveFair ==
    SpecLive /\ WF_vars(Keepalive) /\ \A c \in RoomConns : WF_vars(CloseDue(c))

----------------------------------------------------------------------------
(* Broadcasts in one room whose participants may have started closing. *)

NextCast ==
    \/ \E c \in PairConns, reqRoom \in {"A", Null} : Connect(c, Null, Null, reqRoom)
    \/ \E c \in PairConns : JoinRoomMsg(c, "A")
    \/ \E c \in PairConns : LeaveRoomMsg(c)
    \/ \E c \in PoseSenders :
           win[c].seen < MaxCast /\ PoseData(c, ws[c].sessionId, ws[c].deviceType)
    \/ \E c \in PairConns \ PoseSenders : BeginClose(c)
    \/ \E c \in PairConns : Close(c)

SpecCast == Init /\ [][NextCast]_vars

(* Joins of two rooms created at different times. *)

NextJoin ==
    \/ \E c \in PairConns, reqRoom \in {"A", Null} : Connect(c, Null, Null, reqRoom)
    \/ \E c \in PairConns, r \in RoomCodes : JoinRoomMsg(c, r)
    \/ \E c \in PairConns : LeaveRoomMsg(c)
    \/ \E c \in PairConns : BeginClose(c)
    \/ \E c \in PairConns : Close(c)
    \/ Tick

SpecJoin == Init /\ [][NextJoin]_vars

----------------------------------------------------------------------------
(* The browser side: events of the manager's sockets and timers *)

ServerVars == <<flavor, now, ws, connections, rooms, poseDataLimits, sent, lastOp, win,
                relayed, peer, wire, unswept, cleaned>>

(* PoseTracker.init: await this.wsManager.connect('local') *)
ClientInit ==
    /\ ~mgr.started
    /\ \E throws \in BOOLEAN :
          mgr' = [connect(mgr, "local", Null, throws) EXCEPT !.started = TRUE]
    /\ UNCHANGED ServerVars

(* the 'open' event of socket i; a roomId in the URL makes the server join
   the session to that room *)
ClientOpen(i) ==
    /\ mgr.socks[i].phase = "connecting"
    /\ mgr' = [onopen([mgr EXCEPT !.socks[i].phase = "open",
                                  !.socks[i].room = mgr.socks[i].roomId])
                  EXCEPT !.opens = @ + 1, !.calls = 0, !.scheduled = <<>>]
    /\ UNCHANGED ServerVars

(* the 'error' event of socket i: a failed or dropped connection fires it
   before its 'close' event *)
ClientError(i) ==
    /\ mgr.socks[i].phase \in {"connecting", "open", "draining"}
    /\ mgr' = handleDisconnection(lose(mgr, i, "erred"))
    /\ UNCHANGED ServerVars

(* the 'close' event of socket i *)
ClientClose(i) ==
    /\ mgr.socks[i].phase \in {"connecting", "open", "draining", "erred", "closing"}
    /\ mgr' = handleDisconnection(lose(mgr, i, "closed"))
    /\ UNCHANGED ServerVars

(* the server starts the closing handshake ("Server shutting down"): the
   socket's readyState becomes CLOSING; its close event is dispatched later *)
ClientDraining(i) ==
    /\ mgr.socks[i].phase = "open"
    /\ mgr' = [mgr EXCEPT !.socks[i].phase = "draining"]
    /\ UNCHANGED ServerVars

(* a pending reconnect timer fires *)
ReconnectTimer(d) ==
    /\ mgr.timers[d] > 0
    /\ mgr.nsocks < MaxSocks
    /\ \E throws \in BOOLEAN :
          mgr' = reconnectTimer([mgr EXCEPT !.timers[d] = @ - 1], throws)
    /\ UNCHANGED ServerVars

(* the user joins a room through the room panel *)
ClientJoinRoom(roomId) ==
    /\ mgr.started
    /\ mgr' = joinRoomUi(mgr, roomId)
    /\ UNCHANGED ServerVars

(* PoseTracker.stopCamera / cleanup *)
ClientDisconnect ==
    /\ mgr.started /\ ~mgr.stopped
    /\ mgr' = [disconnect(mgr) EXCEPT !.stopped = TRUE]
    /\ UNCHANGED ServerVars

NextClient ==
    \/ ClientInit
    \/ \E i \in SockIds : ClientOpen(i)
    \/ \E i \in SockIds : ClientError(i)
    \/ \E i \in SockIds : ClientClose(i)
    \/ \E i \in SockIds : ClientDraining(i)
    \/ \E d \in Delays : ReconnectTimer(d)
    \/ \E r \in RoomCodes : ClientJoinRoom(r)
    \/ ClientDisconnect

SpecClient == Init /\ [][NextClient]_vars

----------------------------------------------------------------------------
(* The periodic sweep of the rate-limit table (deployment server), next to a
   copy of the table that the same handlers update and no sweep touches. *)

(* the setInterval callback *)
Sweep ==
    /\ flavor = "deploy"
    /\ poseDataLimits' = sweepLimits(poseDataLimits)
    /\ sent' = <<>>
    /\ lastOp' = Op("sweep", 0)
    /\ UNCHANGED <<flavor, now, ws, connections, rooms, win, relayed, peer, wire, mgr, unswept, cleaned>>

(* the time to the next sweep passes *)
Leap ==
    /\ now < MaxLeap
    /\ now' = now + SweepEveryMs
    /\ win' = [c \in Conns |-> [win[c] EXCEPT !.relPrev = 0, !.relCur = 0]]
    /\ sent' = <<>>
    /\ lastOp' = Op("leap", 0)
    /\ UNCHANGED <<flavor, ws, connections, rooms, poseDataLimits, relayed, peer, wire, mgr,
                   unswept, cleaned>>

(* a pose_data message, handled on the table and on its unswept copy *)
PoseSwept(c) ==
    /\ PoseHandled(c, ws[c].sessionId, ws[c].deviceType)
    /\ unswept' = IF flavor = "deploy"
                  THEN MapSet(unswept, ws[c].sessionId, limitAfter(unswept, ws[c].sessionId))
                  ELSE unswept
    /\ UNCHANGED wire

NextSweep ==
    \/ \E c \in RateConns : Connect(c, Null, Null, "A")
    \/ \E c \in PoseSenders : PoseSwept(c)
    \/ Leap
    \/ Sweep

SpecSweep == Init /\ [][NextSweep]_vars

----------------------------------------------------------------------------
(* Pose senders that write any session id and device class into their
   payload. *)

ClaimedIds == SuppliedIds \cup {ws[c].sessionId : c \in RateConns}

NextOrigin ==
    \/ \E c \in RateConns, reqDt \in {"mobile", "vr"} : Connect(c, Null, reqDt, "A")
    \/ \E c \in RateConns, claimSid \in ClaimedIds, claimDt \in {"mobile", "vr"} :
           win[c].seen < MaxCast /\ PoseData(c, claimSid, claimDt)
    \/ \E c \in RateConns : LeaveRoomMsg(c)
    \/ \E c \in RateConns : JoinRoomMsg(c, "A")
    \/ \E c \in RateConns : Close(c)

SpecOrigin == Init /\ [][NextOrigin]_vars

----------------------------------------------------------------------------
(* The sync handshake as the browser client sends it. *)

(* WebSocketManager.requestSync: {type: 'sync_request', sessionId, timestamp},
   no targetSession *)
RequestSync(c) ==
    Receive(c, [Msg("sync_request") EXCEPT !.sessionId = ws[c].sessionId],
            Null, Op("request_sync", c))

(* WebSocketManager.handleSyncRequest: {type: 'sync_response',
   targetSession: data.sessionId, currentState} *)
SyncReply(c, target) ==
    Receive(c, [Msg("sync_response") EXCEPT !.targetSession = target],
            Null, [Op("sync_reply", c) EXCEPT !.target = target])

NextSync ==
    \/ \E c \in PairConns, reqRoom \in {"A", Null} : Connect(c, Null, Null, reqRoom)
    \/ \E c \in PairConns : JoinRoomMsg(c, "A")
    \/ \E c \in PairConns : RequestSync(c)
    \/ \E c, d \in PairConns : ws[d].readyState # "none" /\ SyncReply(c, ws[d].sessionId)
    \/ \E c \in PairConns : Close(c)

SpecSync == Init /\ [][NextSync]_vars

----------------------------------------------------------------------------
(* One sender streaming numbered pose frames to the listeners in its room. *)

NextOrder ==
    \/ \E c \in PairConns : Connect(c, Null, Null, "A")
    \/ \E c \in PoseSenders : Produce(c)
    \/ \E c \in PoseSenders : PoseFrame(c)
    \/ \E c \in PairConns \ PoseSenders : LeaveRoomMsg(c)
    \/ \E c \in PairConns \ PoseSenders : JoinRoomMsg(c, "A")
    \/ \E c \in PairConns \ PoseSenders : Close(c)

SpecOrder == Init /\ [][NextOrder]_vars

----------------------------------------------------------------------------
(* Vocabulary of the properties *)

AllRoomKeys == RoomCodes \cup {Empty, Null} \cup DOMAIN rooms

Participants(r) == IF MapHas(rooms, r) THEN rooms[r].participants ELSE <<>>

(* the connection object c is the ws of some participant entry of room r *)
InRoom(c, r) == \E i \in 1..Len(Participants(r)) : Participants(r)[i].ws = c

RoomsOf(c) == {r \in DOMAIN rooms : InRoom(c, r)}

(* the registry maps c's session id to c *)
Registered(c) ==
    MapHas(connections, ws[c].sessionId) /\ connections[ws[c].sessionId] = c

IsOpen(c) == ws[c].readyState = "open"

SentTo(c, type) == \E i \in 1..Len(sent) : sent[i].to = c /\ sent[i].type = type

CountTo(c, type) ==
    Cardinality({i \in 1..Len(sent) : sent[i].to = c /\ sent[i].type = type})

----------------------------------------------------------------------------
(* C1: a room code is in the room directory if and only if the room's
   participant set is non-empty, after any sequence of connect, join_room,
   create_room, leave_room and close events. *)
C1_RoomExistsIffNonEmpty ==
    \A r \in AllRoomKeys : MapHas(rooms, r) <=> Len(Participants(r)) > 0

(* a leave_room emptied room A, which is gone, while room B is kept *)
C1_Witness ==
    /\ lastOp.op = "leave_room"
    /\ lastOp.room = "A"
    /\ ~MapHas(rooms, "A")
    /\ MapHas(rooms, "B")

(* C2: at every instant a session is in the participant set of at most one
   room, and a participant of room A that sends join_room for another room B
   is afterwards a participant of B and of no other room. *)
C2_OneRoomPerSession ==
    [][ /\ \A c \in Conns : Cardinality(RoomsOf(c)') <= 1
        /\ \A c \in Conns :
              (/\ lastOp'.op = "join_room"
               /\ lastOp'.c = c
               /\ RoomsOf(c) # {}
               /\ lastOp'.room \notin RoomsOf(c))
              => RoomsOf(c)' = {lastOp'.room} ]_vars

(* C3: cleaning up one connection (close or socket error) never removes a
   different, still-open connection from the session registry or from a
   room's participant set. *)
C3_CleanupIsolated ==
    [][ \A d \in Conns :
           (/\ lastOp'.op \in {"close", "error"}
            /\ lastOp'.c # d
            /\ IsOpen(d))
           => /\ Registered(d) => Registered(d)'
              /\ RoomsOf(d) \subseteq RoomsOf(d)' ]_vars

(* C4: no two simultaneously open connections carry the same session id. *)
C4_UniqueSessionIds ==
    \A c, d \in Conns :
        (c # d /\ IsOpen(c) /\ IsOpen(d)) => ws[c].sessionId # ws[d].sessionId

(* C5: once a connection's close has been processed it is absent from the
   registry, from every room's participant set and, in the deployment
   server, its session has no entry in the rate-limit table. *)
C5_NothingOutlivesClose ==
    \A c \in Conns :
        ws[c].readyState = "closed"
        => /\ ~Registered(c)
           /\ RoomsOf(c) = {}
           /\ flavor = "deploy" => ~MapHas(poseDataLimits, ws[c].sessionId)


----------------------------------------------------------------------------
(* Pairing *)

IsJoin(op) == op.op \in {"join_room", "create_room"} \/ (op.op = "connect" /\ ~Falsy(op.room))

OpenParticipants(r) ==
    {Participants(r)[i].ws : i \in {j \in 1..Len(Participants(r)) :
                                       IsOpen(Participants(r)[j].ws)}}

PairingSent == \E i \in 1..Len(sent) : sent[i].type = "pairing_success"

(* C6: in the development server, which implements pairing detection,
   pairing_success is broadcast exactly once when a join takes a room from
   not holding both a mobile and a vr participant to holding both, and is
   not sent by any other step: not by a join into a room that held both
   before the join, and not by a leave. *)
C6_PairingOncePerTransition ==
    [][ flavor = "local" =>
          \A r \in RoomCodes :
             /\ (~HasPair(rooms, r) /\ HasPair(rooms', r))
                => \A c \in OpenParticipants(r)' : CountTo(c, "pairing_success")' = 1
             /\ (IsJoin(lastOp') /\ lastOp'.room = r /\ HasPair(rooms, r))
                => ~PairingSent'
             /\ ~IsJoin(lastOp') => ~PairingSent' ]_vars

(* C7: when a mobile session A is alone in a room and a vr session B joins
   it, every participant with an open connection, B included, receives a
   pairing_success envelope whose devices list is <<mobile, vr>>. *)
C7_PairingReachesBoth ==
    [][ \A r \in RoomCodes : \A a, b \in Conns :
           (/\ a # b
            /\ Len(Participants(r)) = 1
            /\ Participants(r)[1].ws = a
            /\ ws[a].deviceType = "mobile"
            /\ IsJoin(lastOp') /\ lastOp'.c = b /\ lastOp'.room = r
            /\ ws'[b].deviceType = "vr")
           => \A p \in OpenParticipants(r)' :
                 \E i \in 1..Len(sent') :
                    /\ sent'[i].to = p
                    /\ sent'[i].type = "pairing_success"
                    /\ sent'[i].devices = <<"mobile", "vr">> ]_vars

----------------------------------------------------------------------------
(* Rate limiting *)

(* an open participant of the sender's room under another session id *)
HasListener(c) ==
    /\ ~Falsy(ws[c].roomId)
    /\ \E d \in Conns :
          /\ d # c
          /\ IsOpen(d)
          /\ ws[d].sessionId # ws[c].sessionId
          /\ InRoom(d, ws[c].roomId)

PoseRelayed == \E i \in 1..Len(sent) : sent[i].type = "pose_data"

(* C8: of the pose_data messages a connection sends in one rate window,
   exactly the first 30 are relayed to the listeners in its room; the 31st
   and later ones are not relayed, and dropping one writes no envelope to
   anybody, the sender included. *)
C8_FirstThirtyAdmitted ==
    lastOp.op = "pose_data"
    => /\ HasListener(lastOp.c)
          => (PoseRelayed <=> win[lastOp.c].seen <= PoseRateLimit)
       /\ win[lastOp.c].seen > PoseRateLimit => sent = <<>>

(* C9 as stated: the deployment server's limiter is a sliding window, so the
   pose_data messages of one connection relayed at two instants half a
   second apart (a span inside some 1000 ms interval) never number more
   than 30. *)
C9_SlidingWindow ==
    flavor = "deploy"
    => \A c \in Conns : win[c].relPrev + win[c].relCur <= PoseRateLimit

(* C9 amended: the deployment server's limiter is a fixed window per session
   id: between two consecutive starts of a session id's counter (its entry
   is created, reset after its deadline has passed, or created again after
   a purge) at most 30 of that session's pose_data messages are relayed. *)
C9_FixedWindow ==
    flavor = "deploy"
    => \A sid \in DOMAIN relayed : relayed[sid] <= PoseRateLimit

(* a pose_data message was dropped although a listener is in the room,
   after 30 messages of the same counter window had been relayed *)
C9_Witness ==
    /\ flavor = "deploy"
    /\ lastOp.op = "pose_data"
    /\ HasListener(lastOp.c)
    /\ sent = <<>>
    /\ MapHas(relayed, ws[lastOp.c].sessionId)
    /\ relayed[ws[lastOp.c].sessionId] = PoseRateLimit

ControlOps ==
    {"join_room", "leave_room", "ping", "device_register", "sync_request", "room_list"}

(* the sender's counter is above the ceiling and its window has not ended *)
OverLimit(c) ==
    /\ MapHas(poseDataLimits, ws[c].sessionId)
    /\ poseDataLimits[ws[c].sessionId].count > PoseRateLimit
    /\ now <= poseDataLimits[ws[c].sessionId].resetTime

SyncTargetOpen ==
    /\ MapHas(connections, lastOp.target)
    /\ IsOpen(connections[lastOp.target])

(* the effect and the reply of the control message that lastOp records *)
Processed ==
    CASE lastOp.op = "ping" -> Len(sent) = 1 /\ SentTo(lastOp.c, "pong")
      [] lastOp.op = "join_room" ->
             /\ InRoom(lastOp.c, lastOp.room)
             /\ ws[lastOp.c].roomId = lastOp.room
             /\ SentTo(lastOp.c, "room_joined")
      [] lastOp.op = "leave_room" ->
             /\ RoomsOf(lastOp.c) = {}
             /\ ws[lastOp.c].roomId = Null
      [] lastOp.op = "device_register" ->
             /\ ws[lastOp.c].capabilities # Null
             /\ Len(sent) = 1 /\ SentTo(lastOp.c, "device_registered")
      [] lastOp.op = "sync_request" ->
             /\ Len(sent) = 1
             /\ IF SyncTargetOpen
                THEN /\ sent[1].to = connections[lastOp.target]
                     /\ sent[1].type = "sync_request"
                     /\ sent[1].sourceSession = ws[lastOp.c].sessionId
                ELSE SentTo(lastOp.c, "error")
      [] lastOp.op = "room_list" ->
             /\ Len(sent) = 1 /\ SentTo(lastOp.c, "room_list")
             /\ {e.id : e \in sent[1].rooms} = DOMAIN rooms
      [] OTHER -> FALSE

(* C10: in the deployment server only pose_data is rate limited: a
   join_room, leave_room, ping, device_register, sync_request or room_list
   message never changes the rate-limit table and is processed with its
   normal effect and reply, also when its sender's counter is above the
   ceiling in the current window. *)
C10_ControlNotLimited ==
    [][ (flavor = "deploy" /\ lastOp'.op \in ControlOps)
        => /\ poseDataLimits' = poseDataLimits
           /\ Processed' ]_vars

(* a join_room of a sender above its ceiling was carried out *)
C10_Witness ==
    /\ flavor = "deploy"
    /\ lastOp.op = "join_room"
    /\ OverLimit(lastOp.c)
    /\ InRoom(lastOp.c, lastOp.room)
    /\ SentTo(lastOp.c, "room_joined")

----------------------------------------------------------------------------
(* Error replies *)

OnlyReply(c, type) == Len(sent) = 1 /\ sent[1].to = c /\ sent[1].type = type

(* C11: a frame that is not well-formed JSON yields exactly one error
   envelope, written to its sender and to nobody else, changes neither the
   registry nor the room directory, and leaves the connection open: a ping
   the same connection sends next is answered with pong. *)
C11_MalformedFrame ==
    [][ /\ lastOp'.op = "bad_frame"
           => /\ OnlyReply(lastOp.c, "error")'
              /\ connections' = connections
              /\ rooms' = rooms
              /\ ws' = ws
              /\ IsOpen(lastOp.c)'
        /\ (lastOp.op = "bad_frame" /\ lastOp'.op = "ping" /\ lastOp'.c = lastOp.c)
           => OnlyReply(lastOp.c, "pong")' ]_vars

(* a malformed frame of a room member was answered while another client is
   connected *)
C11_Witness ==
    /\ lastOp.op = "bad_frame"
    /\ OnlyReply(lastOp.c, "error")
    /\ RoomsOf(lastOp.c) # {}
    /\ \E d \in Conns : d # lastOp.c /\ IsOpen(d)

(* C12: a well-formed envelope of an unrecognized type yields exactly one
   error envelope to its sender, which names the offending type, does not
   close the connection, and leaves registry, room directory and rate-limit
   table unchanged. *)
C12_UnknownType ==
    [][ lastOp'.op = "unknown"
        => /\ OnlyReply(lastOp.c, "error")'
           /\ sent'[1].about = lastOp'.target
           /\ ws' = ws
           /\ IsOpen(lastOp.c)'
           /\ connections' = connections
           /\ rooms' = rooms
           /\ poseDataLimits' = poseDataLimits ]_vars

(* an unknown type sent by a room member was answered with its name *)
C12_Witness ==
    /\ lastOp.op = "unknown"
    /\ OnlyReply(lastOp.c, "error")
    /\ sent[1].about \in UnknownTypes
    /\ RoomsOf(lastOp.c) # {}

----------------------------------------------------------------------------
(* Requests and their replies *)

(* C13: in both servers a device_register message attaches the payload's
   capability descriptor to the sending session and is answered with exactly
   one device_registered envelope to the sender and no error envelope; room
   membership is unchanged. *)
C13_DeviceRegistered ==
    [][ lastOp'.op = "device_register"
        => /\ OnlyReply(lastOp.c, "device_registered")'
           /\ sent'[1].capabilities # Null
           /\ ws'[lastOp'.c].capabilities = sent'[1].capabilities
           /\ rooms' = rooms ]_vars

(* C14: on create_room the server mints a code under which no room exists,
   joins the sender to it and replies room_created carrying that code;
   afterwards the sender is the sole participant of that room. *)
C14_CreateRoomFresh ==
    [][ lastOp'.op = "create_room"
        => /\ ~MapHas(rooms, lastOp'.room)
           /\ \E i \in 1..Len(sent') :
                 /\ sent'[i].to = lastOp'.c
                 /\ sent'[i].type = "room_created"
                 /\ sent'[i].roomId = lastOp'.room
           /\ Len(Participants(lastOp.room)') = 1
           /\ InRoom(lastOp.c, lastOp.room)' ]_vars

(* C15: a sync_request naming a target session is delivered to exactly that
   target, with sourceSession equal to the sender's session id whatever the
   client supplied, when the target is registered and open; otherwise the
   sender receives exactly one error envelope and nobody else anything. *)
C15_SyncRequestRouted ==
    [][ (lastOp'.op = "sync_request" /\ ~Falsy(lastOp'.target))
        => IF SyncTargetOpen'
           THEN /\ OnlyReply(connections[lastOp.target], "sync_request")'
                /\ sent'[1].sourceSession = ws'[lastOp'.c].sessionId
           ELSE OnlyReply(lastOp.c, "error")' ]_vars

RoomCounts == {<<r, Len(rooms[r].participants)>> : r \in DOMAIN rooms}

(* C16: get_stats and room_list are both recognized: each is answered with
   one snapshot envelope (stats / room_list) that lists exactly the rooms in
   the directory with their participant counts, never with an error
   envelope, and neither changes the registry or the room directory. *)
C16_SnapshotRequests ==
    [][ lastOp'.op \in {"room_list", "get_stats"}
        => /\ OnlyReply(lastOp.c, IF lastOp.op = "room_list" THEN "room_list" ELSE "stats")'
           /\ {<<e.id, e.participants>> : e \in sent'[1].rooms} = RoomCounts
           /\ connections' = connections
           /\ rooms' = rooms ]_vars

----------------------------------------------------------------------------
(* Liveness monitor *)

LeftNoticeTo(d, sid) ==
    \E i \in 1..Len(sent) :
        sent[i].to = d /\ sent[i].type = "participant_left" /\ sent[i].sessionId = sid

(* the 'close' step of connection c, which the monitor had terminated while
   it was a participant of room r, takes it out of r and tells the open
   participants that remain *)
ClosedCleanly(c, r) ==
    (/\ lastOp'.op = "close" /\ lastOp'.c = c
     /\ peer[c].terminated
     /\ InRoom(c, r))
    => /\ ~InRoom(c, r)'
       /\ \A d \in Conns \ {c} :
             (IsOpen(d) /\ InRoom(d, r)) => LeftNoticeTo(d, ws[c].sessionId)'

(* C17: a connection whose peer stopped answering pings is still open after
   at most one monitor cycle: the second cycle after it stopped answering
   terminates it at the latest.  Its close then removes the session from its
   room and sends participant_left to the remaining open participants, and
   with the timer firing and the close event delivered, every silent
   connection ends closed and outside every room. *)
C17_SilentPeerTerminated ==
    /\ [][ /\ \A c \in Conns : IsOpen(c)' => peer'[c].missed <= 1
           /\ \A c \in Conns, r \in RoomCodes : ClosedCleanly(c, r) ]_vars
    /\ \A c \in RoomConns :
          (IsOpen(c) /\ ~peer[c].answering)
          ~> (ws[c].readyState = "closed" /\ RoomsOf(c) = {})

(* the monitor terminated a peer at the second cycle after it fell silent,
   and its close was announced to the other participant *)
C17_Witness ==
    /\ lastOp.op = "close"
    /\ peer[lastOp.c].terminated
    /\ peer[lastOp.c].missed = 2
    /\ RoomsOf(lastOp.c) = {}
    /\ \E d \in Conns : d # lastOp.c /\ LeftNoticeTo(d, ws[lastOp.c].sessionId)

(* C18: in a monitor cycle an open connection is terminated if and only if
   its liveness flag is false; otherwise the flag is cleared and a ping is
   sent; a pong sets the flag to true.  Hence a connection with no ping left
   unanswered at a cycle is not terminated by that cycle. *)
C18_TerminatedIffFlagFalse ==
    [][ /\ lastOp'.op = "keepalive"
           => \A c \in Conns :
                 IsOpen(c)
                 => /\ ~IsOpen(c)' <=> ~ws[c].isAlive
                    /\ ws[c].isAlive => (~ws'[c].isAlive /\ peer'[c].pinged)
                    /\ ~peer[c].pinged => IsOpen(c)'
        /\ lastOp'.op = "pong" => ws'[lastOp'.c].isAlive ]_vars

(* one cycle terminated a silent peer and pinged another one that has
   answered every ping so far *)
C18_Witness ==
    /\ lastOp.op = "keepalive"
    /\ \E c, d \in Conns :
          /\ peer[c].terminated /\ ws[c].readyState = "closing"
          /\ IsOpen(d) /\ peer[d].answering /\ peer[d].pinged /\ ~ws[d].isAlive

----------------------------------------------------------------------------
(* Broadcast and join notifications *)

(* connections of the open participants of room r, the entry of session
   excludeSid left out *)
Recipients(r, excludeSid) ==
    {Participants(r)[i].ws :
        i \in {j \in 1..Len(Participants(r)) :
                  /\ Participants(r)[j].sessionId # excludeSid
                  /\ IsOpen(Participants(r)[j].ws)}}

Got(type) == {sent[i].to : i \in {j \in 1..Len(sent) : sent[j].type = type}}

ExactlyOnce(type, R) == Got(type) = R /\ \A d \in R : CountTo(d, type) = 1

NoErrors == \A i \in 1..Len(sent) : sent[i].type # "error"

JoinStep(c, r) == IsJoin(lastOp') /\ lastOp'.c = c /\ lastOp'.room = r

PoseStep(c, r) ==
    /\ lastOp'.op = "pose_data" /\ lastOp'.c = c
    /\ ws[c].roomId = r
    /\ flavor = "deploy" => poseDataLimits'[ws[c].sessionId].count <= PoseRateLimit

LeaveStep(c, r) ==
    /\ lastOp'.op \in {"leave_room", "close", "error"} /\ lastOp'.c = c
    /\ ws[c].roomId = r
    /\ MapHas(rooms, r)

(* C19: a broadcast to a room writes the envelope exactly once to every
   participant of the room whose connection is open, except the excluded
   session, which gets none; participants that are not open are skipped, no
   error envelope is written and the others are still served.  Checked on
   the three broadcasts: participant_joined (joiner excluded), pose_data
   (sender excluded) and participant_left (nobody excluded). *)
C19_BroadcastExactlyOnce ==
    [][ \A c \in Conns, r \in RoomCodes :
           /\ JoinStep(c, r)
              => (ExactlyOnce("participant_joined", Recipients(r, ws[c].sessionId))
                  /\ NoErrors)'
           /\ PoseStep(c, r)
              => (ExactlyOnce("pose_data", Recipients(r, ws[c].sessionId))
                  /\ NoErrors)'
           /\ LeaveStep(c, r)
              => (ExactlyOnce("participant_left", Recipients(r, Null))
                  /\ NoErrors)' ]_vars

(* a pose_data message was relayed to the one open listener of a room that
   also holds a participant whose connection has started closing *)
C19_Witness ==
    /\ lastOp.op = "pose_data"
    /\ Cardinality(Got("pose_data")) = 1
    /\ lastOp.c \notin Got("pose_data")
    /\ \E d \in Conns : ws[d].readyState = "closing" /\ InRoom(d, ws[lastOp.c].roomId)

(* the room's participants other than connection c, in the order of the
   participant map *)
OthersOf(c, r) ==
    MapSeq(LAMBDA p : [sessionId |-> ws[p.ws].sessionId,
                       deviceType |-> ws[p.ws].deviceType],
           SelectSeq(Participants(r), LAMBDA p : p.ws # c))

RoomJoinedTo(c) == {i \in 1..Len(sent) : sent[i].to = c /\ sent[i].type = "room_joined"}

(* C20: on a join the joiner receives one room_joined that carries the room
   code, the room's participants other than the joiner in join order and
   the room's creation timestamp; every other open participant of the room,
   and nobody else, receives one participant_joined, which names the
   joiner. *)
C20_JoinAnnounced ==
    [][ \A c \in Conns, r \in RoomCodes :
           JoinStep(c, r)
           => (/\ Cardinality(RoomJoinedTo(c)) = 1
               /\ \A i \in RoomJoinedTo(c) :
                     /\ sent[i].roomId = r
                     /\ sent[i].participants = OthersOf(c, r)
                     /\ sent[i].created = rooms[r].created
               /\ ExactlyOnce("participant_joined", Recipients(r, ws[c].sessionId))
               /\ \A i \in 1..Len(sent) :
                     sent[i].type = "participant_joined"
                     => sent[i].sessionId = ws[c].sessionId)' ]_vars

(* a third client joined a room that was created earlier and holds two
   participants, one of them no longer open *)
C20_Witness ==
    /\ lastOp.op = "join_room"
    /\ \E i \in RoomJoinedTo(lastOp.c) :
          /\ Len(sent[i].participants) = 2
          /\ sent[i].created < now
    /\ Cardinality(Got("participant_joined")) = 1

----------------------------------------------------------------------------
(* Atomicity of join *)

(* a step in which the server ran joinRoom (create_room has no handler in
   the deployment server) *)
JoinRan(op) == IsJoin(op) /\ (op.op = "create_room" => flavor = "local")

JoinedNotices == {i \in 1..Len(sent) : sent[i].type = "participant_joined"}

(* C21: join and leave appear atomic to other connections: whenever a
   participant_joined naming session S is written, the room's participant
   map already holds S, and it still does when the handler has returned;
   the state a handler leaves behind after a join has the joiner in the room
   it asked for, never in the gap between its old room and the new one. *)
C21_JoinAtomic ==
    [][ /\ \A i \in JoinedNotices' :
              /\ sent'[i].listed
              /\ \E r \in DOMAIN rooms' :
                    /\ PartHas(rooms'[r].participants, sent'[i].sessionId)
                    /\ InRoom(sent[i].to, r)'
        /\ \A c \in Conns :
              (JoinRan(lastOp') /\ lastOp'.c = c) => InRoom(c, lastOp.room)' ]_vars

(* a participant of room A moved to room B, whose participant was told *)
C21_Witness ==
    /\ lastOp.op = "join_room"
    /\ lastOp.room = "B"
    /\ SentTo(lastOp.c, "room_joined")
    /\ JoinedNotices # {}
    /\ \E i \in 1..Len(sent) : sent[i].type = "participant_left"

----------------------------------------------------------------------------
(* Ordering of relayed pose data *)

Increasing(q) == \A i, j \in 1..Len(q) : i < j => q[i] < q[j]

(* C22: for one sender in one room, every recipient is written the sender's
   relayed pose_data in the order the sender produced them: the frame
   numbers written to a recipient's socket increase; a recipient may miss
   frames (it joined late, left, or the frame was dropped) but never gets a
   frame after a later one. *)
C22_RelayKeepsOrder ==
    \A d \in Conns : Increasing(wire[d].got)

(* two frames were in flight together and a listener was written both, and
   another listener only the later one *)
C22_Witness ==
    /\ \E d \in Conns : Len(wire[d].got) >= 2
    /\ \E e \in Conns : Len(wire[e].got) = 1 /\ wire[e].got[1] > 1
    /\ \E c \in PoseSenders : Len(wire[c].up) >= 2

----------------------------------------------------------------------------
(* Leaving a room *)

LeaveMsgStep(c, r) ==
    /\ lastOp'.op = "leave_room" /\ lastOp'.c = c
    /\ ws[c].roomId = r
    /\ MapHas(rooms, r)

AllLeftName(sid) ==
    \A i \in 1..Len(sent) : sent[i].type = "participant_left" => sent[i].sessionId = sid

SoleParticipant(c, r) ==
    MapHas(rooms, r) /\ ws[c].roomId = r /\ InRoom(c, r) /\ Len(Participants(r)) = 1

(* C23: a leave_room takes the session out of its room; every participant
   that remains and is open is written exactly one participant_left, which
   names the leaver, and the leaver none; when the leaver was the last
   participant the room is deleted in the same step, and a join of a code
   that names no room (or only the room the joiner is about to empty)
   creates a room stamped with the time of the join whose room_joined lists
   no prior participant. *)
C23_LeaveRoom ==
    [][ \A c \in Conns, r \in RoomCodes :
           /\ LeaveMsgStep(c, r)
              => /\ ~InRoom(c, r)'
                 /\ ws'[c].roomId = Null
                 /\ ExactlyOnce("participant_left", Recipients(r, Null))'
                 /\ AllLeftName(ws[c].sessionId)'
                 /\ CountTo(c, "participant_left")' = 0
                 /\ SoleParticipant(c, r) => ~MapHas(rooms', r)
           /\ (JoinStep(c, r) /\ (~MapHas(rooms, r) \/ SoleParticipant(c, r)))
              => /\ rooms'[r].created = now'
                 /\ Len(Participants(r))' = 1
                 /\ \A i \in RoomJoinedTo(c)' :
                       sent'[i].participants = <<>> /\ sent'[i].created = now' ]_vars

(* a leave_room that was announced to a participant that stays, at a time
   when another room had been created and emptied before *)
C23_Witness ==
    /\ lastOp.op = "leave_room" /\ lastOp.room = "A"
    /\ MapHas(rooms, "A") /\ rooms["A"].created > 0
    /\ \E d \in Conns : SentTo(d, "participant_left")
    /\ ~MapHas(rooms, "B")

----------------------------------------------------------------------------
(* The reconnection controller *)

Live(i) == mgr.socks[i].phase \in {"connecting", "open", "draining", "erred", "closing"}

NoTimers == \A d \in Delays : mgr.timers[d] = 0

(* no socket event and no timer is outstanding: the manager takes no further
   step on its own *)
Settled == mgr.started /\ NoTimers /\ \A i \in SockIds : ~Live(i)

Reattempted == \E i \in SockIds : i > 1 /\ mgr.socks[i].service = mgr.socks[1].service

(* C24: when the socket the page opened fails, no later socket opens and the
   page never calls disconnect, the manager comes to rest only in the state
   'Connection Failed', and only after a reconnect timer constructed a
   socket for the service the page had selected. *)
C24_GivesUpAfterRetrying ==
    (Settled /\ mgr.socks[1].phase = "closed" /\ mgr.opens = 0 /\ ~mgr.stopped)
    => (mgr.status = "Connection Failed" /\ Reattempted)

(* C25: between two opens the attempt counter never exceeds
   maxReconnectAttempts and the reconnect timers call connect() at most
   that many times, also when a failed socket fires both its error and its
   close handler. *)
C25_AttemptsCapped ==
    /\ mgr.reconnectAttempts <= maxReconnectAttempts
    /\ mgr.calls <= maxReconnectAttempts

(* a socket failed with error and close, and both timers have fired *)
C25_Witness ==
    /\ mgr.socks[1].phase = "closed"
    /\ mgr.scheduled = <<reconnectDelay, reconnectDelay>>
    /\ mgr.calls = 2 /\ NoTimers

(* C26: the k-th reconnect timer scheduled in one outage (k = 0, 1, ...) has
   the delay reconnectDelay * 2^k, so the delays of one outage double from
   one timer to the next and no two are equal. *)
C26_DelaysDouble ==
    \A k \in 1..Len(mgr.scheduled) : mgr.scheduled[k] = reconnectDelay * Pow2(k - 1)

(* C27: the step in which a socket opens leaves the attempt counter at zero
   and the manager connected; the counter is zero as long as the manager is
   connected, and the first timer scheduled when a connected manager loses
   its socket has the base delay. *)
C27_OpenResetsAttempts ==
    [][ /\ mgr'.opens > mgr.opens => (mgr'.reconnectAttempts = 0 /\ mgr'.isConnected)
        /\ mgr.isConnected => mgr.reconnectAttempts = 0
        /\ (mgr.isConnected /\ mgr'.scheduled # mgr.scheduled)
           => mgr'.scheduled = <<reconnectDelay>> ]_vars

(* a socket opened, then failed, and the first timer of the outage is pending *)
C27_Witness ==
    /\ mgr.opens = 1 /\ ~mgr.isConnected
    /\ mgr.scheduled = <<reconnectDelay>> /\ mgr.timers[reconnectDelay] = 1

(* no timer is pending and no socket is connecting or failing *)
AtRest ==
    /\ mgr.started /\ NoTimers
    /\ \A i \in SockIds : mgr.socks[i].phase \in {"none", "open", "closed"}

BackIn(r) ==
    \E i \in SockIds :
        /\ mgr.socks[i].phase = "open"
        /\ mgr.socks[i].registered
        /\ mgr.socks[i].room = r

(* C28: when the socket of a session that was in room R fails and the page
   did not call disconnect, the manager comes to rest only with an open
   socket on which it has registered and through which the session is a
   participant of R again. *)
C28_RejoinsAfterReconnect ==
    (AtRest /\ mgr.lostRoom # Null /\ ~mgr.stopped) => BackIn(mgr.lostRoom)

----------------------------------------------------------------------------
(* The rate-limit sweep *)

Swept == (DOMAIN poseDataLimits) \ (DOMAIN poseDataLimits')

Admitted(limits, sid) == limits[sid].count <= PoseRateLimit

(* every counter of the table is the counter of the unswept copy, and a
   counter only the copy holds is more than SweepAgeMs past its deadline *)
TablesAgree ==
    /\ DOMAIN poseDataLimits \subseteq DOMAIN unswept
    /\ \A sid \in DOMAIN unswept :
          IF MapHas(poseDataLimits, sid)
          THEN poseDataLimits[sid] = unswept[sid]
          ELSE now > unswept[sid].resetTime + SweepAgeMs

(* C29: the sweep deletes a counter only when the time is more than 60 s
   past the counter's reset deadline, so never a counter whose window is
   current; and every pose_data message is admitted or dropped exactly as it
   is on the table that is never swept. *)
C29_SweepTransparent ==
    [][ /\ lastOp'.op = "sweep"
           => \A sid \in Swept : now > poseDataLimits[sid].resetTime + SweepAgeMs
        /\ \A c \in Conns :
              (lastOp'.op = "pose_data" /\ lastOp'.c = c /\ flavor = "deploy")
              => (Admitted(poseDataLimits', ws[c].sessionId)
                  <=> Admitted(unswept', ws[c].sessionId))
        /\ TablesAgree' ]_vars

(* a sweep has deleted the counter of a sender that was over its ceiling *)
C29_Witness ==
    /\ lastOp.op = "sweep"
    /\ \E sid \in (DOMAIN unswept) \ (DOMAIN poseDataLimits) : ~Admitted(unswept, sid)

----------------------------------------------------------------------------
(* Departure notices *)

LeftNotices == {i \in 1..Len(sent) : sent[i].type = "participant_left"}

(* C30: a participant_left that names session S is written to the
   participants of a room only in a step before which S was a participant of
   that room; a connection that joins an existing room through the roomId
   parameter of its URL therefore causes no participant_left. *)
C30_LeftOnlyForParticipants ==
    [][ \A i \in LeftNotices' :
           \E r \in DOMAIN rooms :
               /\ InRoom(sent'[i].to, r)
               /\ PartHas(rooms[r].participants, sent'[i].sessionId) ]_vars

----------------------------------------------------------------------------
(* The welcome envelope *)

EnvelopesTo(c) == SelectSeq(sent, LAMBDA e : e.to = c)

(* C31: the first envelope written to a connection is its connected
   envelope: in the step that accepts the connection, nothing is written to
   it before connected, also when the roomId parameter makes it join a
   room. *)
C31_ConnectedFirst ==
    [][ \A c \in Conns :
           (lastOp'.op = "connect" /\ lastOp'.c = c)
           => (EnvelopesTo(c)' # <<>> /\ Head(EnvelopesTo(c))'.type = "connected") ]_vars

----------------------------------------------------------------------------
(* The room reference of a connection *)

(* room r maps c's session id to the connection c itself *)
MapsToSelf(c, r) ==
    \E i \in 1..Len(Participants(r)) :
        Participants(r)[i].sessionId = ws[c].sessionId /\ Participants(r)[i].ws = c

(* C32: between handlers, for every accepted connection, ws.roomId = R
   exactly when room R maps the connection's session id to that connection,
   and ws.roomId is null or empty exactly when the connection is in no
   room's participant set. *)
C32_RoomReferenceAgrees ==
    \A c \in Conns :
        ws[c].readyState # "none"
        => /\ \A r \in DOMAIN rooms : MapsToSelf(c, r) => ws[c].roomId = r
           /\ ~Falsy(ws[c].roomId) => MapsToSelf(c, ws[c].roomId)
           /\ Falsy(ws[c].roomId) <=> RoomsOf(c) = {}

----------------------------------------------------------------------------
(* join_room followed by leave_room *)

OnlyMember(c, r) == MapHas(rooms, r) /\ \A i \in 1..Len(Participants(r)) : Participants(r)[i].ws = c

(* C33: whatever room code the preceding join_room carried, also an empty
   one, after a leave_room of the same connection the connection is in no
   room's participant set, and a room whose only member it was is gone. *)
C33_JoinThenLeaveRestores ==
    [][ \A c \in Conns :
           (lastOp.op = "join_room" /\ lastOp.c = c
            /\ lastOp'.op = "leave_room" /\ lastOp'.c = c)
           => /\ RoomsOf(c)' = {}
              /\ \A r \in DOMAIN rooms : OnlyMember(c, r) => ~MapHas(rooms', r) ]_vars

----------------------------------------------------------------------------
(* Origin of relayed pose data *)

PoseEnvelopes == {i \in 1..Len(sent) : sent[i].type = "pose_data"}

(* C34: every relayed pose_data envelope carries the session id and the
   device class of the connection that sent the message, whatever sessionId
   and deviceType the sender wrote into its payload, on both servers. *)
C34_PoseOriginAuthentic ==
    [][ \A c \in Conns :
           (lastOp'.op = "pose_data" /\ lastOp'.c = c)
           => \A i \in PoseEnvelopes' :
                 /\ sent'[i].sessionId = ws[c].sessionId
                 /\ sent'[i].deviceType = ws[c].deviceType ]_vars

----------------------------------------------------------------------------
(* Cleanup after cleanup *)

(* C35: when the 'close' event of a connection follows its 'error' event,
   the cleanup the close listener runs changes nothing in the registry, the
   room directory and the rate-limit table and writes no envelope, so a
   departure is announced at most once to each remaining participant. *)
C35_CleanupIdempotent ==
    [][ \A c \in Conns :
           (c \in cleaned /\ lastOp'.op = "close" /\ lastOp'.c = c)
           => /\ connections' = connections
              /\ rooms' = rooms
              /\ poseDataLimits' = poseDataLimits
              /\ sent' = <<>> ]_vars

----------------------------------------------------------------------------
(* Intentional disconnect *)

(* the 'close' event of socket i, which disconnect() had closed *)
ClosedOnPurpose(i) == mgr.socks[i].phase = "closing" /\ mgr'.socks[i].phase = "closed"

(* C36: the close of a socket that disconnect() closed schedules no
   reconnect timer, and after disconnect() no socket is constructed. *)
C36_DisconnectStopsReconnect ==
    [][ /\ \A i \in SockIds : ClosedOnPurpose(i) => mgr'.timers = mgr.timers
        /\ mgr.stopped => mgr'.nsocks = mgr.nsocks ]_vars

----------------------------------------------------------------------------
(* The connected flag *)

(* C37: isConnected is true exactly when the socket this.ws refers to is
   open, so no event of another socket clears it while that socket is open;
   and the manager has at most one socket that is not closed. *)
C37_ConnectedIffCurrentOpen ==
    /\ mgr.isConnected <=> WsOpen(mgr)
    /\ Cardinality({i \in SockIds : Live(i)}) <= 1

----------------------------------------------------------------------------
(* The two servers side by side *)

RoomTraffic(s) ==
    SelectSeq(s.out, LAMBDA e : e.type \in {"room_joined", "participant_joined",
                                            "participant_left"})

Directory(s) ==
    [rooms |-> s.rooms, connections |-> s.connections,
     refs |-> [c \in Conns |-> s.ws[c].roomId]]

Agree(a, b) == Directory(a) = Directory(b) /\ RoomTraffic(a) = RoomTraffic(b)

JoinMsg(r) == [Msg("join_room") EXCEPT !.roomId = r]

Accepted(c, dt, r) == accept(State, c, generateId(c), dt, r)

(* C38: from every state the two servers reach, the deployment server's
   and the development server's handler of the same event (a connection
   with a roomId, a join_room, a leave_room, a close) leave the same room
   directory, registry and room references and write the same room_joined,
   participant_joined and participant_left envelopes to the same
   connections in the same order; so the two, run side by side on one
   sequence of such events, agree after every step. *)
C38_ServersAgree ==
    \A c \in PairConns :
        /\ IsOpen(c)
           => /\ \A r \in RoomCodes :
                    Agree(handleMessage(State, c, JoinMsg(r), Null),
                          handleMessageLocal(State, c, JoinMsg(r), Null))
              /\ Agree(handleMessage(State, c, Msg("leave_room"), Null),
                       handleMessageLocal(State, c, Msg("leave_room"), Null))
        /\ ws[c].readyState = "none"
           => \A dt \in DeviceTypes, r \in RoomCodes :
                 Agree(joinRoom(Accepted(c, dt, r), c, r),
                       joinRoomLocal(Accepted(c, dt, r), c, r))
        /\ InClients(ws[c])
           => Agree(cleanup(State, c), leaveRoom(unregister(State, ws[c].sessionId), c))

(* the development server has just paired a phone and a headset: the join
   was announced and pairing_success was broadcast on top *)
C38_Witness ==
    /\ flavor = "local" /\ IsJoin(lastOp)
    /\ SentTo(lastOp.c, "pairing_success")
    /\ SentTo(lastOp.c, "room_joined")
    /\ JoinedNotices # {}

----------------------------------------------------------------------------
(* The sync handshake *)

PeersOf(c) ==
    {d \in Conns \ {c} : IsOpen(d) /\ \E r \in DOMAIN rooms : InRoom(c, r) /\ InRoom(d, r)}

(* C39: the server hands a client's requestSync() message to an open peer
   in the sender's room, and the peer's sync_response to the open
   connection of the same room that it names, in the handler of the message (the server queues
   nothing for later), and writes no error envelope for either. *)
C39_SyncHandshakeCompletes ==
    [][ \A c \in Conns :
           /\ (lastOp'.op = "request_sync" /\ lastOp'.c = c /\ PeersOf(c) # {})
              => (NoErrors' /\ \E d \in PeersOf(c) : SentTo(d, "sync_request")')
           /\ (lastOp'.op = "sync_reply" /\ lastOp'.c = c
               /\ MapHas(connections, lastOp'.target)
               /\ connections[lastOp'.target] \in PeersOf(c))
              => /\ NoErrors'
                 /\ \E i \in 1..Len(sent') :
                       /\ sent'[i].to = connections[lastOp'.target]
                       /\ sent'[i].type = "sync_response" ]_vars

=============================================================================
